---- MODULE Spec2Model ----
(***************************************************************************)
(* azure-k8s-dns: a controller that keeps an Azure private DNS zone in     *)
(* step with the Services of a Kubernetes cluster.                         *)
(*                                                                         *)
(* The model holds the cluster's Service objects (store), the DNS zone     *)
(* (zone), and, per reconcile key, the position of the one reconcile that  *)
(* may be in flight for it (pc), the object it fetched (svc), the calls it *)
(* has issued so far (calls) and what the last reconcile returned          *)
(* (result).  A reconcile is cut at its blocking calls: the fetch, each    *)
(* DNS provider call and each Service update is one step, and the          *)
(* environment (users and other controllers changing Services and Pods,    *)
(* the process exiting) may act between two steps.                         *)
(*                                                                         *)
(* The repository holds three drafts of Reconcile; draft says which one    *)
(* the running process was built from:                                     *)
(*   "controller"  ServiceReconciler.Reconcile with the                    *)
(*                 controllerutil.ContainsFinalizer check on the deletion  *)
(*                 path;                                                   *)
(*   "main"        ServiceReconciler.Reconcile without that check;         *)
(*   "reconciler"  Reconciler.Reconcile, which publishes headless Services *)
(*                 from the addresses of their Pods, and annotated Pods,   *)
(*                 and knows neither finalizers nor deletion.              *)
(***************************************************************************)
EXTENDS Naturals, Sequences, FiniteSets, TLC

(***************************** bounds **************************************)
\* How many addresses of AddressPool the cluster hands out.
NumAddrs == 3

\* How long a list of addresses handed to UpsertDNSRecords may be.
MaxLen == 2

(************************* program constants *******************************)
finalizer == "dns.azure.com"
specVersion == "1.1.0"
TTL == 300
\* The clusterIP of a headless Service.
None == <<"N", "o", "n", "e">>

(************************* the model's universe ****************************)
\* A finalizer owned by some other controller (e.g. load-balancer cleanup).
OtherFinalizer == "other/finalizer"
\* The value of the flag -zoneName.
ZoneName == "example.com"

Web == [Namespace |-> "default", Name |-> "web"]
Api == [Namespace |-> "prod", Name |-> "api"]
\* A Service of the same name as Web in another namespace.
WebProd == [Namespace |-> "prod", Name |-> "web"]
Keys == {Web, Api, WebProd}

\* Addresses are strings, modelled as sequences of characters.
IP4a == <<"1", "0", ".", "0", ".", "0", ".", "5">>
IP6a == <<"f", "d", "0", "0", ":", ":", "1">>
IP4b == <<"1", "0", ".", "0", ".", "0", ".", "6">>
IP6b == <<"f", "d", "0", "0", ":", ":", "2">>
IP4c == <<"1", "0", ".", "0", ".", "0", ".", "7">>
AddressPool == <<IP4a, IP6a, IP4b, IP6b, IP4c>>
Addresses == {AddressPool[i] : i \in 1..NumAddrs}

\* The (ClusterIP, ClusterIPs) pairs a Service spec may hold: headless (with
\* or without a label selector), no cluster IP (type ExternalName),
\* single-stack, and dual-stack with one address of each family.
SpecChoices ==
  { [ClusterIP |-> None, ClusterIPs |-> <<None>>, Selector |-> sel] :
      sel \in BOOLEAN }
  \cup { [ClusterIP |-> <<>>, ClusterIPs |-> <<>>, Selector |-> TRUE] }
  \cup { [ClusterIP |-> a, ClusterIPs |-> <<a>>, Selector |-> TRUE] :
           a \in Addresses }
  \cup { [ClusterIP |-> p[1], ClusterIPs |-> <<p[1], p[2]>>, Selector |-> TRUE] :
           p \in { q \in Addresses \X Addresses :
                     (":" \in {q[1][i] : i \in DOMAIN q[1]})
                       # (":" \in {q[2][i] : i \in DOMAIN q[2]}) } }

NoService ==
  [exists |-> FALSE, ClusterIP |-> <<>>, ClusterIPs |-> <<>>,
   Selector |-> FALSE, deleting |-> FALSE, Finalizers |-> {}]

\* The PodIP of a Pod that has no address yet.
NoPodIP == <<>>
\* The PodIPs of the Pods a Service's selector may match, in list order.
PodLists ==
  {<<>>, <<NoPodIP, AddressPool[1]>>, <<AddressPool[2], AddressPool[1]>>}

\* The PodIPs of two dual-stack Pod sets that share no address.
PairPodLists ==
  {<<AddressPool[2], AddressPool[1]>>, <<AddressPool[4], AddressPool[3]>>}

NoPod == [exists |-> FALSE, publish |-> FALSE, PodIP |-> NoPodIP]
\* The Pods a key may name: with or without the annotation
\* azure-dns-publish=true, with or without an address.
PodChoices ==
  { [exists |-> TRUE, publish |-> FALSE, PodIP |-> AddressPool[1]] }
  \cup { [exists |-> TRUE, publish |-> TRUE, PodIP |-> ip] :
           ip \in {AddressPool[1], NoPodIP} }

NoRecord == [ttl |-> 0, records |-> <<>>]

\* Strings that are no IP address: without a colon, and with two colons.
Bogus == <<"b", "o", "g", "u", "s">>
Colons == <<"a", ":", "b", ":", "c">>
\* ... and with one colon: a host and a port.
HostPort == <<"1", "0", ".", "0", ".", "0", ".", "5", ":", "8", "0">>
\* The []string a caller may hand to UpsertDNSRecords.
InputAddrs == {AddressPool[1], AddressPool[2], Bogus, Colons, HostPort}
InputLists ==
  UNION {[1..n -> InputAddrs] : n \in 0..MaxLen}
\* What a record set of the name may hold before the call.
StartRecords == {NoRecord, [ttl |-> 300, records |-> <<AddressPool[5]>>]}

Drafts == {"controller", "main", "reconciler"}

VARIABLES
  phase,    \* "starting" | "running" | "exited": the controller process
  draft,    \* "controller" | "main" | "reconciler": the draft that is running
  keys,     \* the reconcile keys this cluster ever uses
  store,    \* Key -> the Service object the API server holds
  pods,     \* Key -> the PodIPs of the Pods the Service's selector matches
  pod,      \* Key -> the Pod object of that namespace and name
  zone,     \* <<name, kind>> -> the record set the zone holds, or NoRecord
  pc,       \* Key -> where the in-flight reconcile of the key stands
  svc,      \* Key -> the reconcile's own copy of the Service
  dnsName,  \* Key -> the reconcile's dnsName
  ipList,   \* Key -> the addresses the reconcile hands to the upsert
  stale,    \* Key -> the stored Service changed since the reconcile read it
  moved,    \* Key -> the Pods changed since the reconcile read them
  seen,     \* Key -> the Service as the current (or last) reconcile read it
  calls,    \* Key -> the calls the current (or last) reconcile has issued
  result,   \* Key -> what the last reconcile of the key returned
  upserted, \* Key -> UpsertDNSRecords has returned nil for the stored Service
  settled   \* Key -> a reconcile ran through undisturbed, nothing changed since

vars == <<phase, draft, keys, store, pods, pod, zone, pc, svc, dnsName, ipList,
          stale, moved, seen, calls, result, upserted, settled>>

\* What one reconcile keeps about its key; what the model keeps about it.
local == <<svc, dnsName, ipList, stale, moved, seen, calls, result>>
history == <<upserted, settled>>

(***************************** Name Resolution *****************************)
\* Mutant of resolveDNSName: the namespace is left out of the name.
resolveDNSName_NoNamespace(k) == k.Name \o ".svc"
\* ServiceReconciler.Reconcile: <service>.<namespace>.svc
resolveDNSName(k) == k.Name \o "." \o k.Namespace \o ".svc"
\* Reconciler.Reconcile, headless Service: <service>.<zone>
serviceDNSName(k) == k.Name \o "." \o ZoneName
\* Reconciler.Reconcile, Pod: <pod>.<namespace>.<zone>
podDNSName(k) == k.Name \o "." \o k.Namespace \o "." \o ZoneName

DNSNames ==
  {resolveDNSName(k) : k \in Keys} \cup {serviceDNSName(k) : k \in Keys}
    \cup {podDNSName(k) : k \in Keys}
VersionKey == <<"dns-version", "TXT">>
RecordKeys == (DNSNames \X {"A", "AAAA"}) \cup {VersionKey}

\* getPodIPsForHeadlessService: an error when the Service has no selector or
\* the List fails (ok = FALSE), else the PodIPs that are not empty.
getPodIPsForHeadlessService(s, podList, ok) ==
  IF ~s.Selector \/ ~ok
  THEN [err |-> TRUE, ipList |-> <<>>]
  ELSE [err |-> FALSE, ipList |-> SelectSeq(podList, LAMBDA ip : ip # NoPodIP)]

(******************************* Record Codec ******************************)
RECURSIVE Count(_, _)
Count(s, c) ==
  IF s = <<>> THEN 0
  ELSE (IF Head(s) = c THEN 1 ELSE 0) + Count(Tail(s), c)

\* Mutant of IsIPv6: one colon is enough.
IsIPv6_AnyColon(ip) == Count(ip, ":") >= 1
\* strings.Count(ip, ":") >= 2
IsIPv6(ip) == Count(ip, ":") >= 2

ipv4Addrs(list) == SelectSeq(list, LAMBDA ip : ~IsIPv6(ip))
ipv6Addrs(list) == SelectSeq(list, LAMBDA ip : IsIPv6(ip))

RecordSet(ips) == [ttl |-> TTL, records |-> ips]

(******************************* Zone Client *******************************)
\* RecordSetsClient.CreateOrUpdate: the record set of (name, kind) is replaced.
CreateOrUpdate(z, name, kind, rs) == [z EXCEPT ![<<name, kind>>] = rs]
\* RecordSetsClient.Delete: the record set of (name, kind) is removed.
DeleteRecordSet(z, name, kind) == [z EXCEPT ![<<name, kind>>] = NoRecord]
\* Mutant of DeleteAnswer: the delete of a record set the zone does not
\* hold is answered with an error.
DeleteAnswer_NotFoundIsError(z, name, kind, ok) ==
  ok /\ z[<<name, kind>>] # NoRecord
\* The err of d.recordSetClient.Delete is nil when the request went through
\* (ok), whether or not the zone held the record set.
DeleteAnswer(z, name, kind, ok) == ok
\* DeleteDNSRecords when both provider calls succeed.
DeleteDNSRecords(z, name) ==
  DeleteRecordSet(DeleteRecordSet(z, name, "A"), name, "AAAA")

\* Mutant of createOrUpdateARecordSet: the addresses are merged into the
\* record set the zone already holds.
createOrUpdateARecordSet_Merge(z, name, ips) ==
  CreateOrUpdate(z, name, "A", RecordSet(z[<<name, "A">>].records \o ips))
\* Mutant of createOrUpdateARecordSet: the version marker is stamped along
\* with every A record set.
createOrUpdateARecordSet_Stamp(z, name, ips) ==
  CreateOrUpdate(CreateOrUpdate(z, name, "A", RecordSet(ips)),
                 VersionKey[1], VersionKey[2], RecordSet(<<specVersion>>))
\* createOrUpdateARecordSet: an A record set of the addresses, TTL 300.
createOrUpdateARecordSet(z, name, ips) ==
  CreateOrUpdate(z, name, "A", RecordSet(ips))
\* Mutant of createOrUpdateAAAARecordSet: the addresses are added to those
\* the record set holds already.
createOrUpdateAAAARecordSet_Merge(z, name, ips) ==
  CreateOrUpdate(z, name, "AAAA", RecordSet(z[<<name, "AAAA">>].records \o ips))
\* createOrUpdateAAAARecordSet: an AAAA record set of the addresses, TTL 300.
createOrUpdateAAAARecordSet(z, name, ips) ==
  CreateOrUpdate(z, name, "AAAA", RecordSet(ips))

\* UpsertDNSRecords when every provider call succeeds: the A bucket is
\* written if it is not empty, then the AAAA bucket if it is not empty.
UpsertDNSRecords(z, name, list) ==
  LET za == IF Len(ipv4Addrs(list)) > 0
            THEN createOrUpdateARecordSet(z, name, ipv4Addrs(list))
            ELSE z
  IN  IF Len(ipv6Addrs(list)) > 0
      THEN createOrUpdateAAAARecordSet(za, name, ipv6Addrs(list))
      ELSE za

(****************************** finalizers *********************************)
ContainsFinalizer(s, f) == f \in s.Finalizers
\* Mutant of AddFinalizer: the finalizer list is replaced by the token.
AddFinalizer_Replace(s, f) == [s EXCEPT !.Finalizers = {f}]
AddFinalizer(s, f) == [s EXCEPT !.Finalizers = @ \cup {f}]
RemoveFinalizer(s, f) == [s EXCEPT !.Finalizers = @ \ {f}]

IsHeadless(s) == s.ClusterIP = None

(****************************** call log ***********************************)
Call(op, name, kind, arg, ok) ==
  [op |-> op, name |-> name, kind |-> kind, arg |-> arg, ok |-> ok]
\* A DNS provider call for (name, kind) with the addresses it carries.
DNSCall(op, name, kind, ips, ok) == Call(op, name, kind, ips, ok)
\* r.Update of the Service: kind says which finalizer edit preceded it.
UpdateCall(k, edit, ok) == Call("Update", resolveDNSName(k), edit, <<>>, ok)
\* r.List of the Pods in the Service's namespace.
ListCall(k, ok) == Call("List", k.Namespace, "", <<>>, ok)
\* The entry of UpsertDNSRecords / DeleteDNSRecords.
EnterCall(op, name, ips) == Call(op, name, "", ips, TRUE)

(************************* the API server's Update *************************)
\* What the stored object becomes when the API server accepts obj: an
\* object that is being deleted and holds no finalizer any more is removed.
Stored(obj) ==
  IF obj.deleting /\ obj.Finalizers = {} THEN NoService ELSE obj

\* r.Update(ctx, &svc) is accepted when the object still exists, is the
\* version the reconcile read (else: conflict), and adds no finalizer to an
\* object that is being deleted (the API server forbids that).
UpdateAccepted(k, obj) ==
  /\ store[k].exists
  /\ ~stale[k]
  /\ store[k].deleting => obj.Finalizers \subseteq store[k].Finalizers

(******************************** Init *************************************)
\* The process is about to start: the zone is empty, no reconcile has run.
Quiet ==
  /\ phase = "starting"
  /\ pod = [k \in Keys |-> NoPod]
  /\ zone = [rk \in RecordKeys |-> NoRecord]
  /\ pc = [k \in Keys |-> "idle"]
  /\ svc = [k \in Keys |-> NoService]
  /\ dnsName = [k \in Keys |-> ""]
  /\ ipList = [k \in Keys |-> <<>>]
  /\ stale = [k \in Keys |-> FALSE]
  /\ moved = [k \in Keys |-> FALSE]
  /\ seen = [k \in Keys |-> NoService]
  /\ calls = [k \in Keys |-> <<>>]
  /\ result = [k \in Keys |-> "none"]
  /\ upserted = [k \in Keys |-> FALSE]
  /\ settled = [k \in Keys |-> FALSE]

\* ... and the cluster holds no Service yet.
Fresh ==
  /\ Quiet
  /\ draft \in Drafts
  /\ store = [k \in Keys |-> NoService]
  /\ pods = [k \in Keys |-> <<>>]

\* ServiceReconciler, in a cluster in which one reconcile key is in use.
Init == Fresh /\ keys = {Web} /\ draft \in {"controller", "main"}
\* Reconciler, in a cluster in which one reconcile key is in use.
ReconcilerInit == Fresh /\ keys = {Web} /\ draft = "reconciler"

\* The Service whose reconciles fail for ever.
Poisoned == Web
\* ServiceReconciler, in a cluster that holds two Services with cluster IPs.
PoisonInit ==
  /\ Quiet
  /\ draft \in {"controller", "main"}
  /\ keys = {Poisoned, Api}
  /\ pods = [k \in Keys |-> <<>>]
  /\ \E sp \in {c \in SpecChoices : c.ClusterIP # None /\ c.ClusterIPs # <<>>} :
       store = [k \in Keys |->
                  IF k = Poisoned
                  THEN [exists |-> TRUE, ClusterIP |-> AddressPool[1],
                        ClusterIPs |-> <<AddressPool[1]>>, Selector |-> TRUE,
                        deleting |-> FALSE, Finalizers |-> {}]
                  ELSE IF k = Api
                  THEN [exists |-> TRUE, ClusterIP |-> sp.ClusterIP,
                        ClusterIPs |-> sp.ClusterIPs, Selector |-> TRUE,
                        deleting |-> FALSE, Finalizers |-> {}]
                  ELSE NoService]

\* A headless Service with a selector, as the cluster stores it.
HeadlessService ==
  [exists |-> TRUE, ClusterIP |-> None, ClusterIPs |-> <<None>>,
   Selector |-> TRUE, deleting |-> FALSE, Finalizers |-> {}]
\* Reconciler, in a cluster that holds two headless Services of the same
\* name in two namespaces, each with dual-stack Pods.
ReconcilerPairInit ==
  /\ Quiet
  /\ draft = "reconciler"
  /\ keys = {Web, WebProd}
  /\ store = [k \in Keys |-> IF k \in {Web, WebProd} THEN HeadlessService
                              ELSE NoService]
  /\ \E w, p \in PairPodLists :
       pods = [k \in Keys |-> IF k = Web THEN w
                              ELSE IF k = WebProd THEN p ELSE <<>>]

(************************** process start and exit *************************)
\* Mutant of MustSetTxTVerion: the error of the write is logged and the
\* process goes on to start the manager.
MustSetTxTVerion_LogOnly(ok) ==
  /\ phase = "starting"
  /\ draft \in {"controller", "main"}
  /\ zone' = IF ok
             THEN CreateOrUpdate(zone, VersionKey[1], VersionKey[2],
                                 [ttl |-> 0, records |-> <<specVersion>>])
             ELSE zone
  /\ phase' = "running"
  /\ UNCHANGED <<draft, keys, store, pods, pod, pc, local, history>>

\* main of ServiceReconciler: MustSetTxTVerion writes the TXT record
\* dns-version, then the manager starts; log.Fatalf ends the process when
\* the write fails.
MustSetTxTVerion(ok) ==
  /\ phase = "starting"
  /\ draft \in {"controller", "main"}
  /\ IF ok
     THEN /\ zone' = CreateOrUpdate(zone, VersionKey[1], VersionKey[2],
                                    [ttl |-> 0, records |-> <<specVersion>>])
          /\ phase' = "running"
     ELSE /\ phase' = "exited"
          /\ UNCHANGED zone
  /\ UNCHANGED <<draft, keys, store, pods, pod, pc, local, history>>

\* main of Reconciler: the manager starts, nothing is written before.
StartManager ==
  /\ phase = "starting"
  /\ draft = "reconciler"
  /\ phase' = "running"
  /\ UNCHANGED <<draft, keys, store, pods, pod, zone, pc, local, history>>

\* The process ends (signal, crash, node loss): reconciles in flight are lost.
ProcessExit ==
  /\ phase = "running"
  /\ phase' = "exited"
  /\ pc' = [k \in Keys |-> "idle"]
  /\ svc' = [k \in Keys |-> NoService]
  /\ dnsName' = [k \in Keys |-> ""]
  /\ ipList' = [k \in Keys |-> <<>>]
  /\ stale' = [k \in Keys |-> FALSE]
  /\ moved' = [k \in Keys |-> FALSE]
  /\ seen' = [k \in Keys |-> NoService]
  /\ calls' = [k \in Keys |-> <<>>]
  /\ result' = [k \in Keys |-> "none"]
  /\ settled' = [k \in Keys |-> FALSE]
  /\ UNCHANGED <<draft, keys, store, pods, pod, zone, upserted>>

\* The process is started again.
ProcessStart ==
  /\ phase = "exited"
  /\ phase' = "starting"
  /\ UNCHANGED <<draft, keys, store, pods, pod, zone, pc, local, history>>

(***************** the cluster: users and other controllers ****************)
\* Any change of the stored object makes an in-flight reconcile's copy stale
\* and ends a settled state; a removed object takes its history with it.
Touch(k) ==
  /\ stale' = [stale EXCEPT ![k] = (pc[k] # "idle")]
  /\ settled' = [settled EXCEPT ![k] = FALSE]
  /\ upserted' = [upserted EXCEPT ![k] = @ /\ store'[k].exists]
  /\ UNCHANGED <<phase, draft, keys, pods, pod, zone, pc, svc, dnsName, ipList,
                 moved, seen, calls, result>>

CreateService(k) ==
  /\ k \in keys
  /\ ~store[k].exists
  /\ \E sp \in SpecChoices, others \in SUBSET {OtherFinalizer} :
       store' = [store EXCEPT ![k] =
                   [exists |-> TRUE, ClusterIP |-> sp.ClusterIP,
                    ClusterIPs |-> sp.ClusterIPs, Selector |-> sp.Selector,
                    deleting |-> FALSE, Finalizers |-> others]]
  /\ Touch(k)

\* The spec is edited (a change of clusterIP passes through type ExternalName).
UpdateServiceSpec(k) ==
  /\ store[k].exists
  /\ \E sp \in SpecChoices :
       /\ <<sp.ClusterIPs, sp.Selector>> # <<store[k].ClusterIPs, store[k].Selector>>
       /\ store' = [store EXCEPT ![k].ClusterIP = sp.ClusterIP,
                                 ![k].ClusterIPs = sp.ClusterIPs,
                                 ![k].Selector = sp.Selector]
  /\ Touch(k)

\* kubectl delete: the deletion timestamp is set; the object goes at once
\* when it holds no finalizer.
DeleteService(k) ==
  /\ store[k].exists
  /\ ~store[k].deleting
  /\ store' = [store EXCEPT ![k] = Stored([@ EXCEPT !.deleting = TRUE])]
  /\ Touch(k)

\* Another controller finishes its cleanup and drops its finalizer.
RemoveOtherFinalizer(k) ==
  /\ store[k].exists
  /\ store[k].deleting
  /\ OtherFinalizer \in store[k].Finalizers
  /\ store' = [store EXCEPT ![k] = Stored(RemoveFinalizer(@, OtherFinalizer))]
  /\ Touch(k)

\* Pods are read by draft "reconciler" alone.  A reconcile that has read
\* the Pods and is still in flight has been overtaken.
Overtake(k, after) ==
  /\ settled' = [settled EXCEPT ![k] = FALSE]
  /\ moved' = [moved EXCEPT ![k] = @ \/ (after /\ pc[k] \in {"UpsertA", "UpsertAAAA"})]
  /\ UNCHANGED <<phase, draft, keys, store, zone, pc, svc, dnsName, ipList,
                 stale, seen, calls, result, upserted>>

\* The Pods the selector of a headless Service matches come, go, get an
\* address.
ChangePods(k) ==
  /\ store[k].exists /\ IsHeadless(store[k]) /\ store[k].Selector
  /\ \E list \in PodLists :
       /\ list # pods[k]
       /\ pods' = [pods EXCEPT ![k] = list]
  /\ UNCHANGED pod
  /\ Overtake(k, seen[k].exists)

\* The Pod of the key's namespace and name is created, edited, deleted.
ChangePod(k) ==
  /\ k \in keys
  /\ \E p \in PodChoices \cup {NoPod} :
       /\ p # pod[k]
       /\ pod' = [pod EXCEPT ![k] = p]
  /\ UNCHANGED pods
  /\ Overtake(k, ~seen[k].exists)

(******************************* Reconcile *********************************)
\* Mutant of AfterGet: the upsert path writes DNS before it persists the
\* finalizer.
AfterGet_UpsertFirst(d, s) ==
  IF d = "reconciler" THEN (IF IsHeadless(s) THEN "ListPods" ELSE "ReturnOk")
  ELSE IF IsHeadless(s) THEN "ReturnOk"
  ELSE IF s.deleting
       THEN IF d = "controller" /\ ~ContainsFinalizer(s, finalizer)
            THEN "ReturnOk"
            ELSE "DeleteA"
       ELSE "UpsertA"
\* Mutant of AfterGet: the deletion path is lost, a Service that is being
\* deleted is left alone.
AfterGet_NoDeletionPath(d, s) ==
  IF d = "reconciler" THEN (IF IsHeadless(s) THEN "ListPods" ELSE "ReturnOk")
  ELSE IF IsHeadless(s) \/ s.deleting THEN "ReturnOk" ELSE "UpdateAdd"
\* Where Reconcile goes once it has fetched Service s.  ServiceReconciler:
\* the headless check, then the deletion path (draft "controller" first
\* checks that the finalizer is there), else the upsert path.  Reconciler:
\* a headless Service is resolved to its Pods, any other is left alone.
AfterGet(d, s) ==
  IF d = "reconciler" THEN (IF IsHeadless(s) THEN "ListPods" ELSE "ReturnOk")
  ELSE IF IsHeadless(s) THEN "ReturnOk"
  ELSE IF s.deleting
       THEN IF d = "controller" /\ ~ContainsFinalizer(s, finalizer)
            THEN "ReturnOk"
            ELSE "DeleteA"
       ELSE "UpdateAdd"

\* Mutant of AfterGetFailed: ServiceReconciler returns the not-found error
\* instead of ignoring it.
AfterGetFailed_NotFoundIsError(d, ok) ==
  IF d = "reconciler" THEN "GetPod" ELSE "ReturnErr"
\* Where Reconcile goes when the fetch of the Service failed (ok: the error
\* is not-found).  ServiceReconciler returns client.IgnoreNotFound(err);
\* Reconciler tries a Pod of the same key.
AfterGetFailed(d, ok) ==
  IF d = "reconciler" THEN "GetPod"
  ELSE IF ok THEN "ReturnOk" ELSE "ReturnErr"

\* The dnsName Reconcile has computed when it leaves the fetch for `to`.
NameAfterGet(d, k, to) ==
  IF d = "reconciler"
  THEN (IF to = "ListPods" THEN serviceDNSName(k) ELSE "")
  ELSE resolveDNSName(k)

\* Mutant of AfterDeleteA: the error of the A delete is dropped, the AAAA
\* delete follows in any case.
AfterDeleteA_Continue(ok) == "DeleteAAAA"
\* DeleteDNSRecords: the A record set, then the AAAA record set.
AfterDeleteA(ok) == IF ok THEN "DeleteAAAA" ELSE "ReturnErr"
\* Mutant of AfterDeleteAAAA: the error of the AAAA delete is dropped.
AfterDeleteAAAA_IgnoreErr(ok) == "UpdateRemove"
AfterDeleteAAAA(ok) == IF ok THEN "UpdateRemove" ELSE "ReturnErr"

\* After the update that removes the finalizer the deletion block ends
\* without a return: control runs on into the upsert path.
AfterUpdateRemove(ok) == IF ok THEN "UpdateAdd" ELSE "ReturnErr"

\* UpsertDNSRecords: the A bucket if it is not empty, then the AAAA bucket
\* if it is not empty.
EnterUpsert(list) ==
  IF Len(ipv4Addrs(list)) > 0 THEN "UpsertA"
  ELSE IF Len(ipv6Addrs(list)) > 0 THEN "UpsertAAAA"
  ELSE "ReturnOk"

\* Mutant of AfterUpdateAdd: the error of the update that adds the
\* finalizer is dropped, the upsert follows in any case.
AfterUpdateAdd_IgnoreErr(ok, list) == EnterUpsert(list)
AfterUpdateAdd(ok, list) == IF ~ok THEN "ReturnErr" ELSE EnterUpsert(list)

\* Mutant of AfterUpsertA: a failed A write rolls the finalizer back.
AfterUpsertA_Rollback(ok, list) ==
  IF ~ok THEN "UpdateRemove"
  ELSE IF Len(ipv6Addrs(list)) > 0 THEN "UpsertAAAA"
  ELSE "ReturnOk"
\* Mutant of AfterUpsertA: the error of the A write is dropped, the AAAA
\* bucket follows in any case.
AfterUpsertA_Continue(ok, list) ==
  IF Len(ipv6Addrs(list)) > 0 THEN "UpsertAAAA" ELSE "ReturnOk"
AfterUpsertA(ok, list) ==
  IF ~ok THEN "ReturnErr"
  ELSE IF Len(ipv6Addrs(list)) > 0 THEN "UpsertAAAA"
  ELSE "ReturnOk"

AfterUpsertAAAA(ok) == IF ok THEN "ReturnOk" ELSE "ReturnErr"

\* What Reconcile makes of the end of UpsertDNSRecords: ServiceReconciler
\* returns its error, Reconciler prints it and returns nil.
Swallow(d, to) == IF d = "reconciler" /\ to = "ReturnErr" THEN "ReturnOk" ELSE to

\* Reconciler, headless Service: an error of getPodIPsForHeadlessService
\* is a requeue after requeueInterval, else the upsert of the addresses.
AfterListPods(r) == IF r.err THEN "ReturnRequeue" ELSE EnterUpsert(r.ipList)

\* Reconciler, Pod: the addresses of a Pod that carries the annotation.
podIPList(p) == IF p.PodIP # NoPodIP THEN <<p.PodIP>> ELSE <<>>
AfterGetPod(found, p) ==
  IF found /\ p.publish THEN EnterUpsert(podIPList(p)) ELSE "ReturnOk"

Returns(to) == to \in {"ReturnOk", "ReturnErr", "ReturnRequeue"}

\* The bookkeeping of one step of the reconcile of key k: it moves to `to`
\* (the Return... end it), its copy of the Service becomes obj, its dnsName
\* name, the addresses it holds list, and `log` are the calls it has issued.
\* clean: no call of the step failed on its own account.
Step(k, to, clean, obj, name, list, log) ==
  /\ pc' = [pc EXCEPT ![k] = IF Returns(to) THEN "idle" ELSE to]
  /\ result' = [result EXCEPT ![k] =
                  IF to = "ReturnOk" THEN "ok"
                  ELSE IF to = "ReturnErr" THEN "err"
                  ELSE IF to = "ReturnRequeue" THEN "requeue" ELSE "none"]
  /\ svc' = [svc EXCEPT ![k] = IF Returns(to) THEN NoService ELSE obj]
  /\ dnsName' = [dnsName EXCEPT ![k] = IF Returns(to) THEN "" ELSE name]
  /\ ipList' = [ipList EXCEPT ![k] = IF Returns(to) THEN <<>> ELSE list]
  /\ moved' = [moved EXCEPT ![k] = IF Returns(to) THEN FALSE ELSE @]
  /\ calls' = [calls EXCEPT ![k] = log]
  /\ settled' = [settled EXCEPT ![k] =
                   IF Returns(to)
                   THEN clean /\ ~(pc[k] # "idle" /\ stale[k]) /\ ~moved[k]
                   ELSE @ /\ clean]

\* Mutant of Deliver: a key whose reconcile failed stays at the head of the
\* queue, no other key is handed out before it has succeeded.
Deliver_HeadOfLine(k) ==
  pc[k] = "idle" /\ \A j \in keys \ {k} : result[j] # "err"
\* The controller's work queue hands a key to a worker: any key that is not
\* in flight, whatever the other keys' reconciles returned.
Deliver(k) == pc[k] = "idle"

\* The key is delivered and r.Get fetches the Service: ok = FALSE is an
\* error other than not-found.
Get(k, ok) ==
  /\ phase = "running"
  /\ k \in keys
  /\ Deliver(k)
  /\ stale' = [stale EXCEPT ![k] = FALSE]
  /\ LET found == ok /\ store[k].exists
         to == IF found THEN AfterGet(draft, store[k])
               ELSE AfterGetFailed(draft, ok)
         name == NameAfterGet(draft, k, to)
     IN  /\ seen' = [seen EXCEPT ![k] = IF found THEN store[k] ELSE NoService]
         /\ Step(k, to, ok, IF found THEN store[k] ELSE NoService, name, <<>>,
                 IF to = "DeleteA"
                 THEN <<EnterCall("DeleteDNSRecords", name, <<>>)>>
                 ELSE <<>>)
  /\ UNCHANGED <<phase, draft, keys, store, pods, pod, zone, upserted>>

\* Reconciler: getPodIPsForHeadlessService, then the entry of
\* upsertDNSRecords with the PodIPs.
ListPods(k, ok) ==
  /\ pc[k] = "ListPods"
  /\ LET r == getPodIPsForHeadlessService(svc[k], pods[k], ok)
         to == AfterListPods(r)
     IN  /\ upserted' = [upserted EXCEPT ![k] =
                           @ \/ (to = "ReturnOk" /\ store[k].exists)]
         /\ Step(k, to, ok, svc[k], dnsName[k], r.ipList,
                 calls[k]
                 \o (IF svc[k].Selector THEN <<ListCall(k, ok)>> ELSE <<>>)
                 \o (IF r.err THEN <<>>
                     ELSE <<EnterCall("UpsertDNSRecords", dnsName[k], r.ipList)>>))
  /\ UNCHANGED <<phase, draft, keys, store, pods, pod, zone, stale, seen>>

\* Reconciler: r.Get of the Pod of the same key (ok = FALSE: the Get fails),
\* then the entry of upsertDNSRecords with the Pod's address.
GetPod(k, ok) ==
  /\ pc[k] = "GetPod"
  /\ LET found == ok /\ pod[k].exists
         to == AfterGetPod(found, pod[k])
         name == podDNSName(k)
         list == podIPList(pod[k])
     IN  Step(k, to, ok, svc[k], name, list,
              calls[k]
              \o (IF found /\ pod[k].publish
                  THEN <<EnterCall("UpsertDNSRecords", name, list)>>
                  ELSE <<>>))
  /\ UNCHANGED <<phase, draft, keys, store, pods, pod, zone, stale, seen, upserted>>

\* Mutant of DeleteA: the zone is read first, and the A record set is
\* deleted only when the zone holds it.
DeleteA_IfPresent(k, ok) ==
  /\ pc[k] = "DeleteA"
  /\ LET held == zone[<<dnsName[k], "A">>] # NoRecord
         done == ~held \/ DeleteAnswer(zone, dnsName[k], "A", ok)
     IN  /\ zone' = IF done THEN DeleteRecordSet(zone, dnsName[k], "A") ELSE zone
         /\ Step(k, AfterDeleteA(done), ok, svc[k], dnsName[k], ipList[k],
                 calls[k]
                 \o (IF held
                     THEN <<DNSCall("Delete", dnsName[k], "A", <<>>, done)>>
                     ELSE <<>>))
  /\ UNCHANGED <<phase, draft, keys, store, pods, pod, stale, seen, upserted>>

DeleteA(k, ok) ==
  /\ pc[k] = "DeleteA"
  /\ LET done == DeleteAnswer(zone, dnsName[k], "A", ok)
     IN  /\ zone' = IF done THEN DeleteRecordSet(zone, dnsName[k], "A") ELSE zone
         /\ Step(k, AfterDeleteA(done), ok, svc[k], dnsName[k], ipList[k],
                 calls[k] \o <<DNSCall("Delete", dnsName[k], "A", <<>>, done)>>)
  /\ UNCHANGED <<phase, draft, keys, store, pods, pod, stale, seen, upserted>>

DeleteAAAA(k, ok) ==
  /\ pc[k] = "DeleteAAAA"
  /\ LET done == DeleteAnswer(zone, dnsName[k], "AAAA", ok)
     IN  /\ zone' = IF done THEN DeleteRecordSet(zone, dnsName[k], "AAAA") ELSE zone
         /\ Step(k, AfterDeleteAAAA(done), ok, svc[k], dnsName[k], ipList[k],
                 calls[k] \o <<DNSCall("Delete", dnsName[k], "AAAA", <<>>, done)>>)
  /\ UNCHANGED <<phase, draft, keys, store, pods, pod, stale, seen, upserted>>

\* controllerutil.RemoveFinalizer, then r.Update(ctx, &svc): on success the
\* store holds the edited object, and the copy is the server's answer.
UpdateRemove(k, ok) ==
  /\ pc[k] = "UpdateRemove"
  /\ LET obj == RemoveFinalizer(svc[k], finalizer)
         done == ok /\ UpdateAccepted(k, obj)
     IN  /\ store' = IF done THEN [store EXCEPT ![k] = Stored(obj)] ELSE store
         /\ upserted' = [upserted EXCEPT ![k] = @ /\ store'[k].exists]
         /\ Step(k, AfterUpdateRemove(done), ok, obj, dnsName[k], ipList[k],
                 calls[k] \o <<UpdateCall(k, "remove", done)>>)
  /\ UNCHANGED <<phase, draft, keys, pods, pod, zone, stale, seen>>

\* controllerutil.AddFinalizer, then r.Update(ctx, &svc), then the entry of
\* UpsertDNSRecords with the copy's ClusterIPs.
UpdateAdd(k, ok) ==
  /\ pc[k] = "UpdateAdd"
  /\ LET obj == AddFinalizer(svc[k], finalizer)
         done == ok /\ UpdateAccepted(k, obj)
         to == AfterUpdateAdd(done, obj.ClusterIPs)
     IN  /\ store' = IF done THEN [store EXCEPT ![k] = Stored(obj)] ELSE store
         /\ upserted' = [upserted EXCEPT ![k] = @ \/ to = "ReturnOk"]
         /\ Step(k, to, ok, obj, dnsName[k], obj.ClusterIPs,
                 calls[k] \o <<UpdateCall(k, "add", done)>>
                 \o (IF done
                     THEN <<EnterCall("UpsertDNSRecords", dnsName[k], obj.ClusterIPs)>>
                     ELSE <<>>))
  /\ UNCHANGED <<phase, draft, keys, pods, pod, zone, stale, seen>>

\* createOrUpdateARecordSet with the A bucket.
UpsertA(k, ok) ==
  /\ pc[k] = "UpsertA"
  /\ LET ips == ipv4Addrs(ipList[k])
         to == AfterUpsertA(ok, ipList[k])
     IN  /\ zone' = IF ok
                    THEN createOrUpdateARecordSet(zone, dnsName[k], ips)
                    ELSE zone
         /\ upserted' = [upserted EXCEPT ![k] =
                           @ \/ (to = "ReturnOk" /\ seen[k].exists /\ store[k].exists)]
         /\ Step(k, Swallow(draft, to), ok, svc[k], dnsName[k], ipList[k],
                 calls[k] \o <<DNSCall("CreateOrUpdate", dnsName[k], "A", ips, ok)>>)
  /\ UNCHANGED <<phase, draft, keys, store, pods, pod, stale, seen>>

\* createOrUpdateAAAARecordSet with the AAAA bucket.
UpsertAAAA(k, ok) ==
  /\ pc[k] = "UpsertAAAA"
  /\ LET ips == ipv6Addrs(ipList[k])
         to == AfterUpsertAAAA(ok)
     IN  /\ zone' = IF ok
                    THEN createOrUpdateAAAARecordSet(zone, dnsName[k], ips)
                    ELSE zone
         /\ upserted' = [upserted EXCEPT ![k] =
                           @ \/ (to = "ReturnOk" /\ seen[k].exists /\ store[k].exists)]
         /\ Step(k, Swallow(draft, to), ok, svc[k], dnsName[k], ipList[k],
                 calls[k] \o <<DNSCall("CreateOrUpdate", dnsName[k], "AAAA", ips, ok)>>)
  /\ UNCHANGED <<phase, draft, keys, store, pods, pod, stale, seen>>

\* ServiceReconciler.Reconcile
Reconcile(k, ok) ==
  \/ Get(k, ok)
  \/ DeleteA(k, ok)
  \/ DeleteAAAA(k, ok)
  \/ UpdateRemove(k, ok)
  \/ UpdateAdd(k, ok)
  \/ UpsertA(k, ok)
  \/ UpsertAAAA(k, ok)

\* Reconciler.Reconcile
ReconcilerReconcile(k, ok) ==
  \/ Get(k, ok)
  \/ ListPods(k, ok)
  \/ GetPod(k, ok)
  \/ UpsertA(k, ok)
  \/ UpsertAAAA(k, ok)

(******************************** Next *************************************)
Cluster(k) ==
  \/ CreateService(k)
  \/ UpdateServiceSpec(k)
  \/ DeleteService(k)
  \/ RemoveOtherFinalizer(k)

Next ==
  \/ \E ok \in BOOLEAN : MustSetTxTVerion(ok)
  \/ ProcessExit
  \/ ProcessStart
  \/ \E k \in Keys : Cluster(k)
  \/ \E k \in Keys, ok \in BOOLEAN : Reconcile(k, ok)

Spec == Init /\ [][Next]_vars

\* The process built from draft "reconciler": it watches Services and Pods.
ReconcilerNext ==
  \/ StartManager
  \/ ProcessExit
  \/ ProcessStart
  \/ \E k \in Keys : Cluster(k) \/ ChangePods(k) \/ ChangePod(k)
  \/ \E k \in Keys, ok \in BOOLEAN : ReconcilerReconcile(k, ok)

ReconcilerSpec == ReconcilerInit /\ [][ReconcilerNext]_vars

\* The process built from draft "reconciler" with its workers alone: the
\* cluster of ReconcilerPairInit does not change.
ReconcilerPairNext ==
  \/ StartManager
  \/ \E k \in Keys, ok \in BOOLEAN : ReconcilerReconcile(k, ok)

ReconcilerPairSpec == ReconcilerPairInit /\ [][ReconcilerPairNext]_vars

\* A caller of AzureDNSConfig.UpsertDNSRecords: the call has been entered
\* with the name of Web and any list of strings, on a zone that may hold
\* records of the name already.
ClientInit ==
  /\ phase = "running"
  /\ draft = "main"
  /\ keys = {Web}
  /\ store = [k \in Keys |-> NoService]
  /\ pods = [k \in Keys |-> <<>>]
  /\ pod = [k \in Keys |-> NoPod]
  /\ svc = [k \in Keys |-> NoService]
  /\ stale = [k \in Keys |-> FALSE]
  /\ moved = [k \in Keys |-> FALSE]
  /\ seen = [k \in Keys |-> NoService]
  /\ upserted = [k \in Keys |-> FALSE]
  /\ settled = [k \in Keys |-> FALSE]
  /\ \E list \in InputLists, old \in StartRecords :
       LET name == resolveDNSName(Web)
           to == EnterUpsert(list)
       IN  /\ zone = [rk \in RecordKeys |-> IF rk[1] = name THEN old ELSE NoRecord]
           /\ pc = [k \in Keys |-> IF k = Web /\ ~Returns(to) THEN to ELSE "idle"]
           /\ result = [k \in Keys |-> IF k = Web /\ Returns(to) THEN "ok" ELSE "none"]
           /\ dnsName = [k \in Keys |-> IF k = Web /\ ~Returns(to) THEN name ELSE ""]
           /\ ipList = [k \in Keys |-> IF k = Web /\ ~Returns(to) THEN list ELSE <<>>]
           /\ calls = [k \in Keys |->
                         IF k = Web
                         THEN <<EnterCall("UpsertDNSRecords", name, list)>>
                         ELSE <<>>]

\* UpsertDNSRecords runs: the provider calls for the two buckets.
ClientNext ==
  \E k \in Keys, ok \in BOOLEAN : UpsertA(k, ok) \/ UpsertAAAA(k, ok)

ClientSpec == ClientInit /\ [][ClientNext]_vars

\* The controller with one poisoned Service: the fetch of the poisoned
\* Service may succeed, every other call of its reconciles fails; the calls
\* of the other Services succeed; the other Services may be deleted.
PoisonNext ==
  \/ MustSetTxTVerion(TRUE)
  \/ \E k \in Keys \ {Poisoned} : DeleteService(k)
  \/ \E k \in Keys \ {Poisoned} : Reconcile(k, TRUE)
  \/ \E ok \in BOOLEAN :
       /\ ok => pc[Poisoned] = "idle"
       /\ Reconcile(Poisoned, ok)

\* The start succeeds, and the reconciles of the Services that are not
\* poisoned keep being scheduled.
PoisonFairness ==
  /\ WF_vars(MustSetTxTVerion(TRUE))
  /\ \A k \in Keys \ {Poisoned} : WF_vars(Reconcile(k, TRUE))

PoisonSpec == PoisonInit /\ [][PoisonNext]_vars /\ PoisonFairness

\* The controller under the scheduling the liveness claims assume: the
\* process is not stopped from outside, a failed start is retried and the
\* version write succeeds in the end; every key keeps being delivered and
\* its fetch succeeds again and again; a reconcile in flight takes its next
\* step; and the provider's Delete does not fail for ever.  (Init has one
\* key in use, Web.)
LiveNext ==
  \/ \E ok \in BOOLEAN : MustSetTxTVerion(ok)
  \/ ProcessStart
  \/ \E k \in Keys : Cluster(k)
  \/ \E k \in Keys, ok \in BOOLEAN : Reconcile(k, ok)

\* The steps that take a reconcile in flight past its updates and writes.
Finish(k) ==
  \E ok \in BOOLEAN :
    UpdateRemove(k, ok) \/ UpdateAdd(k, ok) \/ UpsertA(k, ok) \/ UpsertAAAA(k, ok)

Fairness ==
  /\ WF_vars(ProcessStart)
  /\ SF_vars(MustSetTxTVerion(TRUE))
  /\ SF_vars(Get(Web, TRUE))
  /\ SF_vars(DeleteA(Web, TRUE))
  /\ SF_vars(DeleteAAAA(Web, TRUE))
  /\ WF_vars(Finish(Web))

LiveSpec == Init /\ [][LiveNext]_vars /\ Fairness

(***************************************************************************)
(*                          Properties                                     *)
(***************************************************************************)
Log(k) == calls[k]
Idx(k) == DOMAIN calls[k]
InFlight(k) == pc[k] # "idle"
HasFinalizer(s) == ContainsFinalizer(s, finalizer)
NonHeadless(s) == s.exists /\ s.ClusterIP # None
\* The calls the step now taken by the reconcile of k adds to its log.
Issued(k) ==
  IF calls'[k] = calls[k] THEN {}
  ELSE IF InFlight(k)
       THEN {calls'[k][i] : i \in (Len(calls[k]) + 1)..Len(calls'[k])}
       ELSE {calls'[k][i] : i \in DOMAIN calls'[k]}
IsDelete(c, kind) == c.op = "Delete" /\ c.kind = kind
IsUpdate(c, edit) == c.op = "Update" /\ c.kind = edit
IsUpsert(c) == c.op \in {"UpsertDNSRecords", "CreateOrUpdate"}
\* DeleteDNSRecords has returned nil before the i-th call of the log.
DeletedBefore(k, i) ==
  /\ \E a \in Idx(k) : a < i /\ IsDelete(Log(k)[a], "A") /\ Log(k)[a].ok
  /\ \E b \in Idx(k) : b < i /\ IsDelete(Log(k)[b], "AAAA") /\ Log(k)[b].ok
\* The i-th call of the log failed and Reconcile returned an error at once.
FailedAndReturned(k, i) ==
  /\ i = Len(Log(k))
  /\ pc[k] = "idle"
  /\ result[k] = "err"

\* C2: the update that removes the finalizer is issued only after both
\* deletes of DeleteDNSRecords succeeded in the same reconcile; a failed
\* delete is the reconcile's last call and Reconcile returns an error; and
\* the stored Service loses the finalizer only in a step whose reconcile has
\* seen DeleteDNSRecords succeed.
C2_RemoveOnlyAfterDelete ==
  /\ [](\A k \in Keys : \A i \in Idx(k) :
          /\ IsUpdate(Log(k)[i], "remove") => DeletedBefore(k, i)
          /\ (Log(k)[i].op = "Delete" /\ ~Log(k)[i].ok) => FailedAndReturned(k, i))
  /\ [][\A k \in Keys :
          (HasFinalizer(store[k]) /\ ~HasFinalizer(store'[k]))
            => /\ InFlight(k)
               /\ \E c \in Issued(k) : IsUpdate(c, "remove") /\ c.ok
               /\ \A c \in Issued(k) : c.op # "Delete"
               /\ \E a, b \in Idx(k) :
                    /\ IsDelete(Log(k)[a], "A") /\ Log(k)[a].ok
                    /\ IsDelete(Log(k)[b], "AAAA") /\ Log(k)[b].ok]_vars

\* C2 witness: a reconcile has deleted the records of a Service that carried
\* the finalizer and then removed the finalizer.
C2_Witness ==
  \E k \in Keys : \E i \in Idx(k) :
    /\ HasFinalizer(seen[k])
    /\ IsUpdate(Log(k)[i], "remove") /\ Log(k)[i].ok
    /\ ~HasFinalizer(store[k])

\* C4: in every reconcile that read a non-headless Service any upsert (the entry of UpsertDNSRecords, every
\* CreateOrUpdate) comes after an update that added the finalizer and
\* succeeded; a failed update is the reconcile's last call and Reconcile
\* returns an error; and when a CreateOrUpdate is issued the stored Service
\* carries the finalizer.
C4_FinalizerFirst ==
  /\ [](\A k \in Keys : \A i \in Idx(k) :
          /\ (NonHeadless(seen[k]) /\ IsUpsert(Log(k)[i]))
               => \E j \in Idx(k) : j < i /\ IsUpdate(Log(k)[j], "add") /\ Log(k)[j].ok
          /\ (IsUpdate(Log(k)[i], "add") /\ ~Log(k)[i].ok) => FailedAndReturned(k, i))
  /\ [][\A k \in Keys : \A c \in Issued(k) :
          NonHeadless(seen'[k])
            => /\ c.op = "UpsertDNSRecords" => HasFinalizer(store'[k])
               /\ c.op = "CreateOrUpdate" => HasFinalizer(store[k])]_vars

\* C4 witness: a reconcile found a Service without the finalizer, persisted
\* it and then wrote an A record set.
C4_Witness ==
  \E k \in Keys : \E i \in Idx(k) :
    /\ seen[k].exists /\ ~HasFinalizer(seen[k])
    /\ Log(k)[i].op = "CreateOrUpdate" /\ Log(k)[i].ok
    /\ HasFinalizer(store[k])

\* C5 (as claimed): a reconcile that reads a headless Service issues no
\* Service update and no upsert (neither the entry of UpsertDNSRecords nor a
\* CreateOrUpdate), and a headless Service does not carry the finalizer
\* unless it got it before it was headless.
C5_HeadlessSkip ==
  \A k \in Keys :
    (seen[k].exists /\ seen[k].ClusterIP = None)
      => \A i \in Idx(k) : Log(k)[i].op # "Update" /\ ~IsUpsert(Log(k)[i])

\* The record sets the zone holds under the resolved name of k.
ZoneOf(k) ==
  [kind \in {"A", "AAAA"} |-> zone[<<resolveDNSName(k), kind>>]]
NoRecords(k) == \A kind \in {"A", "AAAA"} : ZoneOf(k)[kind] = NoRecord
\* The record set a list of addresses of one family implies.
Implied(ips) == IF ips = <<>> THEN NoRecord ELSE [ttl |-> 300, records |-> ips]
\* The last reconcile of k ran undisturbed on the Service as it is stored
\* now, took the upsert path and returned success.
Converged(k) ==
  /\ settled[k] /\ pc[k] = "idle" /\ result[k] = "ok"
  /\ store[k].exists
  /\ store[k].ClusterIP # None
  /\ ~store[k].deleting

\* C3 (as claimed): a reconcile of a Service that has a deletion timestamp
\* issues only the DNS deletes and the update that removes the finalizer,
\* and after that update succeeded it issues nothing more: no update that
\* adds the finalizer, no upsert.
C3_DeletionOnlyDeletes ==
  \A k \in Keys :
    (seen[k].exists /\ seen[k].deleting)
      => \A i \in Idx(k) :
           /\ \/ Log(k)[i].op \in {"DeleteDNSRecords", "Delete"}
              \/ IsUpdate(Log(k)[i], "remove")
           /\ (IsUpdate(Log(k)[i], "remove") /\ Log(k)[i].ok) => i = Len(Log(k))

\* C6 (as claimed): after an undisturbed reconcile returned success for a
\* non-headless Service that is not being deleted, the zone holds under its
\* name exactly the A record set of its IPv4 addresses and the AAAA record
\* set of its IPv6 addresses, each absent when the Service has no address
\* of the family.
C6_ZoneMatchesService ==
  \A k \in Keys :
    Converged(k)
      => /\ ZoneOf(k)["A"] = Implied(ipv4Addrs(store[k].ClusterIPs))
         /\ ZoneOf(k)["AAAA"] = Implied(ipv6Addrs(store[k].ClusterIPs))

\* C7 (as claimed): after an undisturbed reconcile returned success for a
\* Service whose address list is empty, no A and no AAAA record set is left
\* under its name.
C7_EmptyListRemoves ==
  \A k \in Keys :
    (Converged(k) /\ store[k].ClusterIPs = <<>>) => NoRecords(k)

\* C8: once a reconcile of a Service ran undisturbed (none of its calls
\* failed on its own account, the Service did not change under it), and for
\* as long as nothing changes the Service, no step of a further undisturbed
\* reconcile changes the records under its name or its finalizers.
C8_ReconcileIdempotent ==
  [][\A k \in Keys :
       (settled[k] /\ settled'[k])
         => /\ ZoneOf(k)' = ZoneOf(k)
            /\ store'[k] = store[k]]_vars

\* C8 witness: a second undisturbed reconcile has passed its update and its
\* A write and is about to write the AAAA record set again.
C8_Witness ==
  \E k \in Keys :
    /\ settled[k]
    /\ pc[k] = "UpsertAAAA"
    /\ ZoneOf(k)["A"] # NoRecord /\ ZoneOf(k)["AAAA"] # NoRecord

\* C9 (as claimed): a reconcile that reads a Service with a deletion
\* timestamp and without the finalizer issues no call and returns success.
C9_DeletingWithoutFinalizerNoop ==
  \A k \in Keys :
    (seen[k].exists /\ seen[k].deleting /\ ~HasFinalizer(seen[k]))
      => Log(k) = <<>> /\ pc[k] = "idle" /\ result[k] = "ok"

\* C10 (as claimed): a reconcile that reads a Service with a deletion
\* timestamp and the finalizer calls DeleteDNSRecords for its name,
\* whatever its clusterIP.
C10_DeletingAlwaysDeletes ==
  \A k \in Keys :
    (seen[k].exists /\ seen[k].deleting /\ HasFinalizer(seen[k]))
      => /\ Log(k) # <<>>
         /\ Log(k)[1].op = "DeleteDNSRecords"
         /\ Log(k)[1].name = resolveDNSName(k)

\* C1: whenever a Service for which UpsertDNSRecords once returned nil has
\* a deletion timestamp and is not headless, then later no A and no AAAA
\* record set is left under its name (or the Service has been made headless
\* in the meantime).
C1_NoOrphan ==
  \A k \in Keys :
    (upserted[k] /\ store[k].exists /\ store[k].deleting /\ store[k].ClusterIP # None)
      ~> (NoRecords(k) \/ store[k].ClusterIP = None)

\* C1 witness: a Service that had a successful upsert is being deleted, and
\* the reconcile in flight has deleted both record sets of its name.
C1_Witness ==
  \E k \in Keys :
    /\ upserted[k] /\ store[k].exists /\ store[k].deleting
    /\ store[k].ClusterIP # None
    /\ pc[k] = "UpdateRemove"
    /\ Len(ipv4Addrs(seen[k].ClusterIPs)) > 0
    /\ NoRecords(k)

\* C11 (as claimed): once a Service that had a successful upsert and carries
\* the finalizer has been made headless, an undisturbed reconcile that
\* returned success has left no A and no AAAA record set under its name.
C11_HeadlessTransitionDeletes ==
  \A k \in Keys :
    ( /\ settled[k] /\ pc[k] = "idle" /\ result[k] = "ok"
      /\ upserted[k] /\ store[k].exists /\ HasFinalizer(store[k])
      /\ store[k].ClusterIP = None )
      => NoRecords(k)

\* C12 (as claimed): a reconcile one of whose calls failed returns an error.
C12_ErrorsReturned ==
  \A k \in Keys :
    (pc[k] = "idle" /\ \E i \in Idx(k) : ~Log(k)[i].ok) => result[k] = "err"

\* C13: a failed CreateOrUpdate of the upsert is the reconcile's last call
\* and Reconcile returns an error; and the step in which it fails leaves the
\* stored Service, its finalizers included, as it was.
C13_UpsertFailureKeepsFinalizer ==
  /\ [](\A k \in Keys : \A i \in Idx(k) :
          (Log(k)[i].op = "CreateOrUpdate" /\ ~Log(k)[i].ok)
            => FailedAndReturned(k, i))
  /\ [][\A k \in Keys : \A c \in Issued(k) :
          (c.op = "CreateOrUpdate" /\ ~c.ok)
            => /\ store'[k] = store[k]
               /\ pc'[k] = "idle" /\ result'[k] = "err"]_vars

\* C13 witness: a reconcile added the finalizer, its upsert then failed, and
\* the stored Service still carries the finalizer.
C13_Witness ==
  \E k \in Keys :
    /\ seen[k].exists /\ ~HasFinalizer(seen[k])
    /\ Log(k) # <<>>
    /\ Log(k)[Len(Log(k))].op = "CreateOrUpdate" /\ ~Log(k)[Len(Log(k))].ok
    /\ pc[k] = "idle" /\ result[k] = "err"
    /\ HasFinalizer(store[k])

\* C14: a fetch that finds no Service under the key ends the reconcile at
\* once with success, no requeue and no call, and changes neither the zone
\* nor the store.
C14_NotFoundNoop ==
  /\ [](\A k \in Keys :
          (result[k] = "ok" /\ ~seen[k].exists) => Log(k) = <<>> /\ pc[k] = "idle")
  /\ [][\A k \in Keys :
          (Get(k, TRUE) /\ ~store[k].exists)
            => /\ pc'[k] = "idle" /\ result'[k] = "ok"
               /\ calls'[k] = <<>>
               /\ zone' = zone /\ store' = store]_vars

\* C14 witness: the key was delivered while no Service of that name was
\* stored, and its reconcile has returned success.
C14_Witness ==
  \E k \in Keys :
    /\ phase = "running" /\ ~store[k].exists
    /\ pc[k] = "idle" /\ result[k] = "ok" /\ ~seen[k].exists

\* The bucket of a list of addresses that goes into the record set of kind.
Bucket(kind, list) == IF kind = "A" THEN ipv4Addrs(list) ELSE ipv6Addrs(list)

\* C15 (as claimed): a reconcile that acts on a stale version of a Service
\* (the Service changed after the reconcile read it, and is now on the
\* upsert path) changes only record sets that the reconcile of the fresh
\* version writes again, so that the two reconciles leave the zone as the
\* reconcile of the fresh version alone would.
C15_StaleThenFresh ==
  [][\A k \in keys : \A kind \in {"A", "AAAA"} :
       ( /\ InFlight(k) /\ stale[k]
         /\ store[k].exists /\ ~store[k].deleting /\ store[k].ClusterIP # None
         /\ ZoneOf(k)'[kind] # ZoneOf(k)[kind] )
         => Bucket(kind, store[k].ClusterIPs) # <<>>]_vars

\* The last reconcile of k wrote the record set of (n, kind) with success.
Wrote(k, n, kind) ==
  \E i \in Idx(k) :
    /\ Log(k)[i].op = "CreateOrUpdate" /\ Log(k)[i].ok
    /\ Log(k)[i].name = n /\ Log(k)[i].kind = kind
\* The zone holds under (n, kind) what the last reconcile of k wrote there.
RowFrom(k, n, kind) ==
  \E i \in Idx(k) :
    /\ Log(k)[i].op = "CreateOrUpdate" /\ Log(k)[i].ok
    /\ Log(k)[i].name = n /\ Log(k)[i].kind = kind
    /\ zone[<<n, kind>>] = [ttl |-> 300, records |-> Log(k)[i].arg]

\* C16 (as claimed): when the last reconcile of every Service has written
\* the A and the AAAA record set of a name and has returned, the name holds
\* what a serial execution leaves there: both record sets as one and the
\* same reconcile (the last of the serial order) wrote them.
C16_SerialOutcome ==
  \A n \in DNSNames :
    (\A k \in keys : pc[k] = "idle" /\ Wrote(k, n, "A") /\ Wrote(k, n, "AAAA"))
      => \E k \in keys : RowFrom(k, n, "A") /\ RowFrom(k, n, "AAAA")

\* C17: while every reconcile of the poisoned Service fails, the process
\* keeps running, and every other Service converges: while it is not being
\* deleted its record sets come to hold its addresses, and once it is being
\* deleted no record set is left under its name.
C17_OthersConverge ==
  /\ [][phase = "running" => phase' = "running"]_vars
  /\ \A k \in Keys \ {Poisoned} :
       /\ (k \in keys /\ store[k].exists /\ ~store[k].deleting)
            ~> \/ store[k].deleting
               \/ /\ ZoneOf(k)["A"] = Implied(ipv4Addrs(store[k].ClusterIPs))
                  /\ ZoneOf(k)["AAAA"] = Implied(ipv6Addrs(store[k].ClusterIPs))
       /\ (k \in keys /\ store[k].exists /\ store[k].deleting)
            ~> NoRecords(k)

\* C17 witness: the last reconcile of the poisoned Service failed on its
\* update and nothing is written for it, while another Service has its
\* records.
C17_Witness ==
  /\ pc[Poisoned] = "idle" /\ result[Poisoned] = "err"
  /\ Log(Poisoned) # <<>> /\ NoRecords(Poisoned)
  /\ \E k \in keys \ {Poisoned} :
       /\ pc[k] = "idle" /\ result[k] = "ok"
       /\ store[k].exists /\ ZoneOf(k)["A"] # NoRecord

\* The strings that are IP addresses.
WellFormed(ip) == ip \in {AddressPool[i] : i \in DOMAIN AddressPool}
Range(list) == {list[i] : i \in DOMAIN list}
\* The list UpsertDNSRecords was entered with in the log of k.
Entered(k) ==
  {Log(k)[i].arg : i \in {j \in Idx(k) : Log(k)[j].op = "UpsertDNSRecords"}}

\* C18 (as claimed): for the list UpsertDNSRecords was entered with, the
\* IPv4 bucket and the IPv6 bucket are disjoint, their union is the list
\* without its malformed entries, and no malformed entry goes into a
\* create-or-update.
C18_FamilyPartition ==
  \A k \in keys :
    /\ \A list \in Entered(k) :
         /\ Range(ipv4Addrs(list)) \cap Range(ipv6Addrs(list)) = {}
         /\ Range(ipv4Addrs(list)) \cup Range(ipv6Addrs(list))
              = {ip \in Range(list) : WellFormed(ip)}
    /\ \A i \in Idx(k) :
         Log(k)[i].op = "CreateOrUpdate"
           => \A ip \in Range(Log(k)[i].arg) : WellFormed(ip)

C20_UpsertReplaces ==
  /\ [][\A k \in keys : \A c \in Issued(k) :
          (c.op = "CreateOrUpdate" /\ c.ok)
            => zone' = [zone EXCEPT ![<<c.name, c.kind>>] =
                                      [ttl |-> 300, records |-> c.arg]]]_vars
  /\ [](\A k \in keys :
          InFlight(k)
            => UpsertDNSRecords(UpsertDNSRecords(zone, dnsName[k], ipList[k]),
                                dnsName[k], ipList[k])
                 = UpsertDNSRecords(zone, dnsName[k], ipList[k]))

\* C20 witness: the name held an address under both kinds; the A record set
\* has been replaced by the addresses of the call, which are others, and
\* the AAAA record set still holds the old address.
C20_Witness ==
  \E k \in keys : \E i \in Idx(k) :
    /\ Log(k)[i].op = "CreateOrUpdate" /\ Log(k)[i].ok /\ Log(k)[i].kind = "A"
    /\ zone[<<Log(k)[i].name, "A">>] = [ttl |-> 300, records |-> Log(k)[i].arg]
    /\ zone[<<Log(k)[i].name, "AAAA">>] \in StartRecords \ {NoRecord}
    /\ zone[<<Log(k)[i].name, "AAAA">>] # zone[<<Log(k)[i].name, "A">>]

\* C21: DeleteDNSRecords is idempotent.  Whenever a reconcile stands before
\* one of the two deletes, the delete can succeed and take the reconcile on,
\* also when the zone holds no record set of that name and kind; applying
\* DeleteDNSRecords to the zone twice gives the zone that applying it once
\* gives, and applying it to a zone without records of the name gives that
\* zone; and a delete that succeeds on a record set the zone does not hold
\* leaves the whole zone as it was.
C21_DeleteIdempotent ==
  /\ [](\A k \in Keys :
          /\ pc[k] = "DeleteA"
               => ENABLED (DeleteA(k, TRUE) /\ pc'[k] = "DeleteAAAA")
          /\ pc[k] = "DeleteAAAA"
               => ENABLED (DeleteAAAA(k, TRUE) /\ pc'[k] = "UpdateRemove")
          /\ LET n == resolveDNSName(k)
                 once == DeleteDNSRecords(zone, n)
             IN  /\ DeleteDNSRecords(once, n) = once
                 /\ NoRecords(k) => once = zone)
  /\ [][\A k \in Keys : \A c \in Issued(k) :
          (c.op = "Delete" /\ c.ok)
            => /\ zone' = DeleteRecordSet(zone, c.name, c.kind)
               /\ zone[<<c.name, c.kind>>] = NoRecord => zone' = zone]_vars

\* C21 witness: DeleteDNSRecords has returned nil for a Service that never
\* carried the finalizer, so that the zone held no record of its name.
C21_Witness ==
  /\ draft = "main"
  /\ pc[Web] = "UpdateRemove"
  /\ seen[Web].deleting /\ ~HasFinalizer(seen[Web])
  /\ NoRecords(Web)
  /\ Len(Log(Web)) = 3
  /\ IsDelete(Log(Web)[2], "A") /\ Log(Web)[2].ok
  /\ IsDelete(Log(Web)[3], "AAAA") /\ Log(Web)[3].ok
  /\ zone[VersionKey] # NoRecord

\* The TXT record set dns-version as MustSetTxTVerion writes it.
VersionMarker == [ttl |-> 0, records |-> <<"1.1.0">>]

\* C22: while the manager runs the zone holds the TXT record dns-version
\* with the value "1.1.0", and a reconcile is in flight only while the
\* manager runs; every step in which a reconcile issues a call is taken
\* with the marker in the zone; the write at a restart, on a zone that
\* holds the marker, leaves the zone as it is; a start whose write fails
\* ends the process with the zone as it was and no reconcile in flight, and
\* a process that has ended comes to run again only through another start;
\* while the manager does not run no reconcile takes a step and no A or
\* AAAA record set changes.
C22_VersionMarkerFirst ==
  /\ [](/\ phase = "running" => zone[VersionKey] = VersionMarker
        /\ \A k \in Keys : InFlight(k) => phase = "running")
  /\ [][/\ \A k \in Keys :
           Issued(k) # {} => /\ phase = "running"
                             /\ zone[VersionKey] = VersionMarker
        /\ (phase = "starting" /\ phase' = "running")
             => /\ zone' = [zone EXCEPT ![VersionKey] = VersionMarker]
                /\ zone[VersionKey] = VersionMarker => zone' = zone
        /\ (phase = "starting" /\ phase' = "exited")
             => zone' = zone /\ \A k \in Keys : ~InFlight(k)'
        /\ phase = "exited" => phase' \in {"exited", "starting"}
        /\ phase # "running"
             => /\ pc' = pc /\ calls' = calls /\ result' = result
                /\ \A rk \in RecordKeys \ {VersionKey} : zone'[rk] = zone[rk]]_vars

\* C22 witness: the process is being started again: the zone holds the
\* marker an earlier start wrote and the AAAA record set of a Service an
\* earlier reconcile wrote, and the marker is about to be written again.
C22_Witness ==
  /\ phase = "starting"
  /\ zone[VersionKey] = VersionMarker
  /\ zone[<<resolveDNSName(Web), "AAAA">>] # NoRecord
  /\ upserted[Web]
  /\ \A k \in Keys : ~InFlight(k)

\* C23: in every reachable state, the states after a process exit in the
\* middle of a reconcile and after a restart included, a Service under whose
\* resolved name the zone holds an A or an AAAA record set exists and
\* carries the finalizer dns.azure.com.
C23_TrackedRecords ==
  \A k \in Keys :
    ~NoRecords(k) => store[k].exists /\ HasFinalizer(store[k])

\* C23 witness: the process has ended between the two deletes of
\* DeleteDNSRecords: the A record set of a dual-stack Service is gone, its
\* AAAA record set is still there, the Service is being deleted and still
\* carries the finalizer.
C23_Witness ==
  /\ phase = "exited"
  /\ store[Web].exists /\ store[Web].deleting /\ HasFinalizer(store[Web])
  /\ Len(ipv4Addrs(store[Web].ClusterIPs)) > 0
  /\ zone[<<resolveDNSName(Web), "A">>] = NoRecord
  /\ zone[<<resolveDNSName(Web), "AAAA">>] # NoRecord

\* C24: DeleteDNSRecords deletes the A record set first and the AAAA record
\* set second, under the name it was entered with: an A delete directly
\* follows the entry, an AAAA delete directly follows an A delete that
\* succeeded; a delete that failed is followed by no call; Reconcile has
\* DeleteDNSRecords behind it (and stands before the update that removes
\* the finalizer) only when both deletes succeeded; and the update that
\* removes the finalizer is issued only on a zone that holds neither record
\* set of the name.
C24_DeleteOrder ==
  /\ [](\A k \in Keys :
          /\ \A i \in Idx(k) :
               LET c == Log(k)[i]
               IN  /\ IsDelete(c, "A")
                        => /\ i > 1
                           /\ Log(k)[i - 1].op = "DeleteDNSRecords"
                           /\ Log(k)[i - 1].name = c.name
                   /\ IsDelete(c, "AAAA")
                        => /\ i > 1
                           /\ IsDelete(Log(k)[i - 1], "A")
                           /\ Log(k)[i - 1].ok
                           /\ Log(k)[i - 1].name = c.name
                   /\ (c.op = "Delete" /\ ~c.ok) => i = Len(Log(k))
                   /\ IsUpdate(c, "remove")
                        => /\ i > 2
                           /\ IsDelete(Log(k)[i - 1], "AAAA") /\ Log(k)[i - 1].ok
                           /\ IsDelete(Log(k)[i - 2], "A") /\ Log(k)[i - 2].ok
          /\ pc[k] = "UpdateRemove"
               => /\ Len(Log(k)) = 3
                  /\ IsDelete(Log(k)[2], "A") /\ Log(k)[2].ok
                  /\ IsDelete(Log(k)[3], "AAAA") /\ Log(k)[3].ok)
  /\ [][\A k \in Keys : \A c \in Issued(k) :
          /\ (c.op = "Delete" /\ ~c.ok)
               => pc'[k] = "idle" /\ result'[k] = "err" /\ zone' = zone
          /\ IsUpdate(c, "remove") => NoRecords(k)]_vars

\* C24 witness: the A delete succeeded, the AAAA delete failed; Reconcile
\* returned the error, the AAAA record set is still in the zone and the
\* Service still carries the finalizer.
C24_Witness ==
  /\ Len(Log(Web)) = 3
  /\ IsDelete(Log(Web)[2], "A") /\ Log(Web)[2].ok
  /\ IsDelete(Log(Web)[3], "AAAA") /\ ~Log(Web)[3].ok
  /\ pc[Web] = "idle" /\ result[Web] = "err"
  /\ zone[<<resolveDNSName(Web), "A">>] = NoRecord
  /\ zone[<<resolveDNSName(Web), "AAAA">>] # NoRecord
  /\ store[Web].deleting /\ HasFinalizer(store[Web])

\* The i-th call of the log is a create-or-update of the given kind.
IsWrite(c, kind) == c.op = "CreateOrUpdate" /\ c.kind = kind
\* The index of the entry of UpsertDNSRecords in the log of k, 0 if none.
UpsertEntry(k) ==
  IF \E i \in Idx(k) : Log(k)[i].op = "UpsertDNSRecords"
  THEN CHOOSE i \in Idx(k) : Log(k)[i].op = "UpsertDNSRecords"
  ELSE 0

\* C25: UpsertDNSRecords writes the A bucket first and the AAAA bucket
\* second: an A write directly follows the entry and carries the A bucket
\* of the list, which is not empty; an AAAA write carries the AAAA bucket,
\* which is not empty, and directly follows an A write that succeeded, or
\* the entry when the A bucket is empty; a write that failed is followed by
\* no call, leaves the zone as it was, and Reconcile returns an error; and
\* when Reconcile has returned success after it entered UpsertDNSRecords,
\* the write of every bucket that is not empty has succeeded.
C25_UpsertOrder ==
  /\ [](\A k \in Keys :
          LET e == UpsertEntry(k)
          IN  /\ \A i \in Idx(k) :
                   LET c == Log(k)[i]
                   IN  /\ IsWrite(c, "A")
                            => /\ e = i - 1
                               /\ c.name = Log(k)[e].name
                               /\ c.arg = ipv4Addrs(Log(k)[e].arg)
                               /\ c.arg # <<>>
                       /\ IsWrite(c, "AAAA")
                            => /\ e > 0 /\ e < i
                               /\ c.name = Log(k)[e].name
                               /\ c.arg = ipv6Addrs(Log(k)[e].arg)
                               /\ c.arg # <<>>
                               /\ IF ipv4Addrs(Log(k)[e].arg) = <<>>
                                  THEN e = i - 1
                                  ELSE /\ e = i - 2
                                       /\ IsWrite(Log(k)[i - 1], "A")
                                       /\ Log(k)[i - 1].ok
                       /\ (c.op = "CreateOrUpdate" /\ ~c.ok)
                            => i = Len(Log(k)) /\ pc[k] = "idle" /\ result[k] = "err"
              /\ (e > 0 /\ pc[k] = "idle" /\ result[k] = "ok")
                   => \A kind \in {"A", "AAAA"} :
                        Bucket(kind, Log(k)[e].arg) # <<>>
                          => \E i \in Idx(k) :
                               i > e /\ IsWrite(Log(k)[i], kind) /\ Log(k)[i].ok)
  /\ [][\A k \in Keys : \A c \in Issued(k) :
          (c.op = "CreateOrUpdate" /\ ~c.ok) => zone' = zone]_vars

\* C25 witness: the A write succeeded and the AAAA write failed: the zone
\* holds the A record set of the list, and Reconcile returned an error.
C25_Witness ==
  LET n == Len(Log(Web))
  IN  /\ n > 2
      /\ IsWrite(Log(Web)[n - 1], "A") /\ Log(Web)[n - 1].ok
      /\ IsWrite(Log(Web)[n], "AAAA") /\ ~Log(Web)[n].ok
      /\ pc[Web] = "idle" /\ result[Web] = "err"
      /\ zone[<<resolveDNSName(Web), "A">>] = RecordSet(Log(Web)[n - 1].arg)
      /\ zone[<<resolveDNSName(Web), "AAAA">>] = NoRecord

\* Service s with the token dns.azure.com put (edit "add") or taken away
\* (edit "remove"), everything else as it is.
WithToken(s, edit) ==
  [s EXCEPT !.Finalizers =
     IF edit = "add" THEN @ \cup {finalizer} ELSE @ \ {finalizer}]
\* Services a and b differ at most in the presence of the token.
SameButToken(a, b) == WithToken(a, "remove") = WithToken(b, "remove")

\* C26: the copy of the Service a reconcile holds, which is what its
\* updates send, differs from the Service it fetched at most in the
\* presence of the token dns.azure.com; every update is issued after
\* AddFinalizer or RemoveFinalizer of that token; an update that succeeds
\* stores the fetched Service, and the Service stored until then, with the
\* token added or removed and nothing else changed (a deleting Service left
\* without finalizers is removed); and a step of a reconcile without an
\* update that succeeds leaves the stored Services as they are.
C26_UpdateOnlyToken ==
  /\ [](\A k \in Keys :
          /\ (InFlight(k) /\ seen[k].exists) => SameButToken(svc[k], seen[k])
          /\ \A i \in Idx(k) :
               Log(k)[i].op = "Update" => Log(k)[i].kind \in {"add", "remove"})
  /\ [][\A k \in Keys :
          /\ \A c \in Issued(k) :
               (c.op = "Update" /\ c.ok)
                 => /\ store'[k] = Stored(WithToken(seen[k], c.kind))
                    /\ store'[k] = Stored(WithToken(store[k], c.kind))
                    /\ \A j \in Keys \ {k} : store'[j] = store[j]
          /\ (Issued(k) # {} /\ \A c \in Issued(k) : ~(c.op = "Update" /\ c.ok))
               => store' = store]_vars

\* C26 witness: a reconcile fetched a Service that carried another
\* finalizer, and its update stored the Service with both finalizers.
C26_Witness ==
  /\ seen[Web].exists
  /\ seen[Web].Finalizers = {OtherFinalizer}
  /\ \E i \in Idx(Web) : IsUpdate(Log(Web)[i], "add") /\ Log(Web)[i].ok
  /\ store[Web] = [seen[Web] EXCEPT !.Finalizers = {OtherFinalizer, finalizer}]

\* The string holds a colon: it has two or more colon-separated groups.
TwoGroups(ip) == \E i \in DOMAIN ip : ip[i] = ":"
\* The string holds two colons: it has three or more colon-separated groups.
TwoColons(ip) == \E i, j \in DOMAIN ip : i < j /\ ip[i] = ":" /\ ip[j] = ":"
\* Every AAAA write of the log of k carries the entries of the entered list
\* that satisfy V6, every A write the other entries, each in the order of
\* the list; and an upsert that returned success has written every entry.
BucketsBy(k, V6(_)) ==
  \A list \in Entered(k) :
    LET six == SelectSeq(list, V6)
        four == SelectSeq(list, LAMBDA ip : ~V6(ip))
    IN  /\ \A i \in Idx(k) :
             /\ IsWrite(Log(k)[i], "AAAA") => Log(k)[i].arg = six
             /\ IsWrite(Log(k)[i], "A") => Log(k)[i].arg = four
        /\ (pc[k] = "idle" /\ result[k] = "ok")
             => /\ six # <<>> => \E i \in Idx(k) : IsWrite(Log(k)[i], "AAAA")
                /\ four # <<>> => \E i \in Idx(k) : IsWrite(Log(k)[i], "A")

NoCall == Call("", "", "", <<>>, TRUE)
\* The call a reconcile of key k issues next, by the text of Reconcile,
\* DeleteDNSRecords and UpsertDNSRecords: a function of the draft, the
\* Service s the reconcile fetched and the calls it has issued so far with
\* their results, of which only the last one matters.
NextCall(d, k, s, log) ==
  LET n == resolveDNSName(k)
      last == log[Len(log)]
      add == UpdateCall(k, "add", TRUE)
      writeAAAA(list) ==
        IF ipv6Addrs(list) # <<>>
        THEN DNSCall("CreateOrUpdate", n, "AAAA", ipv6Addrs(list), TRUE)
        ELSE NoCall
  IN  IF log = <<>>
      THEN IF ~s.exists \/ IsHeadless(s) THEN NoCall
           ELSE IF ~s.deleting THEN add
           ELSE IF d = "controller" /\ ~HasFinalizer(s) THEN NoCall
           ELSE EnterCall("DeleteDNSRecords", n, <<>>)
      ELSE IF ~last.ok THEN NoCall
      ELSE IF last.op = "DeleteDNSRecords" THEN DNSCall("Delete", n, "A", <<>>, TRUE)
      ELSE IF IsDelete(last, "A") THEN DNSCall("Delete", n, "AAAA", <<>>, TRUE)
      ELSE IF IsDelete(last, "AAAA") THEN UpdateCall(k, "remove", TRUE)
      ELSE IF IsUpdate(last, "remove") THEN add
      ELSE IF IsUpdate(last, "add")
           THEN EnterCall("UpsertDNSRecords", n, s.ClusterIPs)
      ELSE IF last.op = "UpsertDNSRecords"
           THEN IF ipv4Addrs(last.arg) # <<>>
                THEN DNSCall("CreateOrUpdate", n, "A", ipv4Addrs(last.arg), TRUE)
                ELSE writeAAAA(last.arg)
      ELSE IF IsWrite(last, "A") THEN writeAAAA(s.ClusterIPs)
      ELSE NoCall

\* C28: the calls of a reconcile (Zone Client calls and Service updates,
\* with their arguments) are those that the fetched Service and the results
\* of the calls before them determine, whatever the zone holds: every call
\* of the log is the one NextCall names after the calls before it, a
\* reconcile in flight has a next call, and a reconcile that has returned
\* has none.
C28_NoReadBack ==
  \A k \in keys :
    /\ \A i \in Idx(k) :
         [Log(k)[i] EXCEPT !.ok = TRUE]
           = NextCall(draft, k, seen[k], SubSeq(Log(k), 1, i - 1))
    /\ (InFlight(k) \/ result[k] # "none")
         => (InFlight(k) <=> NextCall(draft, k, seen[k], Log(k)) # NoCall)

\* C28 witness: a reconcile of a Service with IPv4 addresses only ran on a
\* zone that holds an AAAA record set of the name: it issued the update and
\* the A write it issues on any zone, and returned success.
C28_Witness ==
  /\ pc[Web] = "idle" /\ result[Web] = "ok"
  /\ seen[Web].exists /\ ipv6Addrs(seen[Web].ClusterIPs) = <<>>
  /\ Len(Log(Web)) = 3
  /\ IsWrite(Log(Web)[3], "A") /\ Log(Web)[3].ok
  /\ zone[<<resolveDNSName(Web), "AAAA">>] # NoRecord

\* C29 (as claimed): a reconcile that fetched a headless Service without a
\* label selector is a skip: it issues no call, it is not in flight any
\* more once address resolution has answered, and it returns success
\* without a requeue or a timed retry.
C29_SelectorMissingSkips ==
  \A k \in keys :
    (seen[k].exists /\ IsHeadless(seen[k]) /\ ~seen[k].Selector
       /\ pc[k] # "ListPods")
      => /\ Log(k) = <<>>
         /\ pc[k] = "idle"
         /\ result[k] = "ok"

\* C30: no step of a reconcile creates, overwrites or deletes the TXT
\* record set dns-version: a step that issues a call, or that a reconcile in
\* flight takes, changes at most the A and the AAAA record set under
\* <name>.<namespace>.svc of its key; every Zone Client call of a reconcile
\* is for kind A or AAAA under that name; and the marker changes only in
\* the step of the process start that writes it.
C30_MarkerNotPerService ==
  /\ [](\A k \in keys : \A i \in Idx(k) :
          Log(k)[i].op \in {"Delete", "CreateOrUpdate"}
            => /\ Log(k)[i].kind \in {"A", "AAAA"}
               /\ Log(k)[i].name = k.Name \o "." \o k.Namespace \o ".svc"
               /\ <<Log(k)[i].name, Log(k)[i].kind>> # VersionKey)
  /\ [][/\ \A k \in Keys :
            (Issued(k) # {} \/ (InFlight(k) /\ pc'[k] # pc[k]))
              => \A rk \in RecordKeys :
                   zone'[rk] # zone[rk]
                     => /\ rk[1] = k.Name \o "." \o k.Namespace \o ".svc"
                        /\ rk[2] \in {"A", "AAAA"}
        /\ zone'[VersionKey] # zone[VersionKey]
             => /\ phase = "starting" /\ phase' = "running"
                /\ \A k \in Keys : ~InFlight(k) /\ calls'[k] = calls[k]]_vars

\* C30 witness: reconciles have written the records of a Service and then
\* deleted them again, and the zone still holds the marker as the start
\* wrote it.
C30_Witness ==
  /\ zone[VersionKey] = VersionMarker
  /\ HasFinalizer(seen[Web]) /\ upserted[Web]
  /\ NoRecords(Web)
  /\ \E i \in Idx(Web) : IsDelete(Log(Web)[i], "AAAA") /\ Log(Web)[i].ok
  /\ ipv6Addrs(seen[Web].ClusterIPs) # <<>>

====
